---- MODULE Spec2Model ----
(***************************************************************************)
(* Model of amr.py: conversion of raw AMR RTP payload to .amr storage.     *)
(*   BitIterator  - bit cursor over a byte string (read, byte_align,       *)
(*                  notEnd)                                                *)
(*   BitMerger    - bit accumulator (put, result)                          *)
(*   AMR.process  - header / TOC / payload demultiplexer                   *)
(* Byte strings are sequences of 0..255.  A Python exception is the err    *)
(* field of an operation's outcome ("" when the call returned).            *)
(***************************************************************************)
EXTENDS Integers, Sequences, FiniteSets, TLC

(***************************************************************************)
(* Byte arithmetic, as Python's >>, <<, &, | on small non-negative ints.   *)
(***************************************************************************)
ShiftRight(x, k) == x \div (2 ^ k)

\* (x << k) & 0xFF
ShiftLeft8(x, k) == (x * (2 ^ k)) % 256

Bit(x, i) == (x \div (2 ^ i)) % 2

BitAnd(x, y) ==
  LET f[i \in 0..8] ==
        IF i = 8 THEN 0 ELSE (2 ^ i) * (Bit(x, i) * Bit(y, i)) + f[i + 1]
  IN  f[0]

BitOr(x, y) ==
  LET f[i \in 0..8] ==
        IF i = 8 THEN 0
        ELSE (2 ^ i) * (IF Bit(x, i) + Bit(y, i) > 0 THEN 1 ELSE 0) + f[i + 1]
  IN  f[0]

(***************************************************************************)
(* class BitIterator: a record [data, offset]                              *)
(***************************************************************************)
\* __init__: data + '\0' (stop mark), offset 0
BitIterator(data) == [data |-> data \o <<0>>, offset |-> 0]

\* the guard of read: n < 0 or n + self.offset > 8 * len(self.data) - 8
ReadRangeErrorStrict(b, n) == n < 0 \/ n + b.offset >= 8 * Len(b.data) - 8

ReadRangeErrorLoose(b, n) == n < 0 \/ n + b.offset > 8 * Len(b.data)

ReadRangeError(b, n) == n < 0 \/ n + b.offset > 8 * Len(b.data) - 8

\* self.offset += n
ReadAdvanceNot(offset, n) == offset

ReadAdvance(offset, n) == offset + n

\* one output byte: val = (x << sh) & 0xFF; val |= next >> (8 - sh)
ReadValNoCarry(x, nx, sh) == ShiftLeft8(x, sh)

ReadVal(x, nx, sh) == BitOr(ShiftLeft8(x, sh), ShiftRight(nx, 8 - sh))

\* the for loop of read: cnt output bytes from byte index i (0-based)
RECURSIVE ReadOut(_, _, _, _)
ReadOut(data, i, sh, cnt) ==
  IF cnt = 0 THEN <<>>
  ELSE <<ReadVal(data[i + 1], data[i + 2], sh)>> \o ReadOut(data, i + 1, sh, cnt - 1)

\* nb = 8 - n % 8; if nb < 8: dataout[-1] &= 0x100 - (1 << nb)
MaskLastNone(dataout, n) == dataout

MaskLast(dataout, n) ==
  LET nb == 8 - (n % 8)
  IN  IF nb < 8
      THEN [dataout EXCEPT ![Len(dataout)] = BitAnd(@, 256 - 2 ^ nb)]
      ELSE dataout

\* read(n): the outcome [b, ret, err]
read(b, n) ==
  IF ReadRangeError(b, n) THEN [b |-> b, ret |-> <<>>, err |-> "IndexError"]
  ELSE IF n = 0 THEN [b |-> b, ret |-> <<>>, err |-> ""]
  ELSE LET i   == b.offset \div 8
           sh  == b.offset % 8
           cnt == (n + 7) \div 8
       IN  IF i + cnt + 1 > Len(b.data)
           THEN \* self.data[i] past the end of the string
                [b |-> b, ret |-> <<>>, err |-> "IndexError"]
           ELSE [b   |-> [b EXCEPT !.offset = ReadAdvance(@, n)],
                 ret |-> MaskLast(ReadOut(b.data, i, sh, cnt), n),
                 err |-> ""]

\* byte_align: self.offset = (self.offset + 7) >> 3 << 3
byte_align_next(b) == [b EXCEPT !.offset = ((@ \div 8) + 1) * 8]

byte_align_none(b) == b

byte_align(b) == [b EXCEPT !.offset = ((@ + 7) \div 8) * 8]

notEnd(b) == b.offset < 8 * Len(b.data) - 8

(***************************************************************************)
(* class BitMerger: a record [offset, complete, lastVal]                   *)
(***************************************************************************)
BitMerger == [offset |-> 0, complete |-> <<>>, lastVal |-> 0]

bitlen(m) == 8 * Len(m.complete) + m.offset

\* the guard of put: bitlen < datalen-7 or bitlen > datalen
PutRangeErrorNoLower(data, n) == n > 8 * Len(data)

PutRangeError(data, n) == n < 8 * Len(data) - 7 \/ n > 8 * Len(data)

\* if bitlen == 0: return
PutNothingNever(n) == FALSE

PutNothing(n) == n = 0

\* mask = (0xFF << (8-self.offset)) & 0xFF
PutMaskAll(off) == 255

PutMask(off) == ShiftLeft8(255, 8 - off)

\* one turn of the for loop of put
PutByte(m, x) ==
  IF m.offset = 0
  THEN [m EXCEPT !.complete = Append(@, x)]
  ELSE [m EXCEPT !.complete = Append(@, BitOr(m.lastVal, ShiftRight(x, m.offset))),
                 !.lastVal  = ShiftLeft8(x, 8 - m.offset)]

RECURSIVE PutBytes(_, _)
PutBytes(m, data) ==
  IF data = <<>> THEN m ELSE PutBytes(PutByte(m, Head(data)), Tail(data))

\* put(data, bitlen): the outcome [m, err]
put(m, data, n) ==
  IF PutRangeError(data, n) THEN [m |-> m, err |-> "IndexError"]
  ELSE IF PutNothing(n) THEN [m |-> m, err |-> ""]
  ELSE LET m1 == PutBytes(m, data)
           bl == m.offset + (n % 8)
       IN  IF 0 < bl /\ bl < 8 /\ m1.complete = <<>>
           THEN \* pop from empty list; nothing was assigned before it
                [m |-> m1, err |-> "IndexError"]
           ELSE LET m2  == IF 0 < bl /\ bl < 8
                           THEN [m1 EXCEPT !.lastVal  = m1.complete[Len(m1.complete)],
                                           !.complete = SubSeq(@, 1, Len(@) - 1)]
                           ELSE m1
                    off  == bl % 8
                    mask == PutMask(off)
                IN  [m   |-> [m2 EXCEPT !.offset = off, !.lastVal = BitAnd(@, mask)],
                     err |-> ""]

\* result(): (bytes, bit count)
result(m) ==
  << IF m.offset > 0 THEN Append(m.complete, m.lastVal) ELSE m.complete, bitlen(m) >>

(***************************************************************************)
(* class AMR                                                               *)
(***************************************************************************)
\* SPEECHBITS[zWB], indexed from mode 0 (TLA+ sequences from 1)
SPEECHBITS(wb) ==
  IF wb THEN <<132, 177, 253, 285, 317, 365, 397, 461, 477, 40>>
        ELSE <<95, 103, 118, 134, 148, 159, 204, 244, 39>>

NMODES(wb) == IF wb THEN 9 ELSE 8

NODATA(wb) == IF wb THEN 14 ELSE 15

\* self.invalidMode = (NMODES[zWB], NODATA[zWB])
invalidMode(wb) == <<NMODES(wb), NODATA(wb)>>

\* round(n): up to a multiple of 8 if zOctetAlign
round(oa, n) == IF oa THEN ((n + 7) \div 8) * 8 ELSE n

\* the assertion of process: mode <= invalidMode[0] or mode >= invalidMode[1]
ModeAllowedLate(wb, mode) ==
  mode <= invalidMode(wb)[1] \/ mode >= invalidMode(wb)[2] - 1

ModeAllowed(wb, mode) ==
  mode <= invalidMode(wb)[1] \/ mode >= invalidMode(wb)[2]

\* if mode <= self.invalidMode[0]: the entry has a speech payload
HasPayloadStrict(wb, mode) == mode < invalidMode(wb)[1]

HasPayload(wb, mode) == mode <= invalidMode(wb)[1]

\* self.sample += 1
CountFrameNot(s) == s

CountFrame(s) == s + 1

\* header == '\0'
ZeroHeaderNever(h) == FALSE

ZeroHeader(h) == h = <<0>>

\* toc.append(t & 0x7C): F and R bits masked
TocByte(t) == BitAnd(t, 124)

\* t & 0x80 == 0: the last entry
LastEntry(t) == BitAnd(t, 128) = 0

(***************************************************************************)
(* State                                                                   *)
(***************************************************************************)
VARIABLES
  b,      \* the BitIterator
  m,      \* the BitMerger
  frags,  \* the fragments put so far (data, bitlen), in order
  call,   \* the last call made: [op, arg, at], at = the offset before it
  ret,    \* what the last call returned
  err,    \* the exception the last call raised, "" if none
  zWB,          \* AMR.zWB: AMR-WB if TRUE, AMR if FALSE
  zOctetAlign,  \* AMR.zOctetAlign
  sample,       \* AMR.sample: the processed-frame counter
  fileOut,      \* the writes made to the sink, in order: [what, bytes]
  pc,           \* where AMR.process stands
  header,       \* process: the header field last read
  toc,          \* process: the TOC list of the current superframe
  ti,           \* process: index in toc of the entry the for loop is at
  entries       \* every TOC field read since construction, unmasked

amrVars == <<zWB, zOctetAlign, sample, fileOut, pc, header, toc, ti, entries>>

vars == <<b, m, frags, call, ret, err, amrVars>>

\* the AMR fields while only a BitIterator or a BitMerger is exercised
AmrIdle ==
  /\ zWB = TRUE
  /\ zOctetAlign = TRUE
  /\ sample = 0
  /\ fileOut = <<>>
  /\ pc = "idle"
  /\ header = <<>>
  /\ toc = <<>>
  /\ ti = 0
  /\ entries = <<>>

NoCall == [op |-> "", arg |-> 0, at |-> 0]

(***************************************************************************)
(* BitMerger: puts of fragments, then result()                             *)
(***************************************************************************)
MaxPuts == 2

\* fragment carriers: empty, one byte, two bytes
Carriers == { <<>>, <<170>>, <<85>>, <<91>>, <<85, 255>> }

\* the bit lengths tried for a carrier: every one put accepts, and one
\* beyond each end of the accepted range
BitLens(data) == (8 * Len(data) - 8) .. (8 * Len(data) + 1)

Put ==
  /\ Len(frags) < MaxPuts
  /\ \E data \in Carriers : \E n \in BitLens(data) :
       LET r == put(m, data, n)
       IN  /\ m' = r.m
           /\ err' = r.err
           /\ frags' = IF r.err = "" THEN Append(frags, <<data, n>>) ELSE frags
           /\ call' = [op |-> "put", arg |-> <<data, n>>, at |-> m]
           /\ ret' = <<>>
  /\ UNCHANGED <<b, amrVars>>

Result ==
  /\ call.op # "result"
  /\ ret' = result(m)
  /\ call' = [op |-> "result", arg |-> 0, at |-> m]
  /\ err' = ""
  /\ UNCHANGED <<b, m, frags, amrVars>>

InitMerger ==
  /\ m = BitMerger
  /\ frags = <<>>
  /\ b = BitIterator(<<>>)
  /\ call = NoCall
  /\ ret = <<>>
  /\ err = ""
  /\ AmrIdle

NextMerger == Put \/ Result

SpecMerger == InitMerger /\ [][NextMerger]_vars

(***************************************************************************)
(* What the merger is meant to hold, stated on bits                        *)
(***************************************************************************)
RECURSIVE SumBitLens(_)
SumBitLens(fs) == IF fs = <<>> THEN 0 ELSE fs[1][2] + SumBitLens(Tail(fs))

\* bit k (0 = the first, most significant bit of the first byte) of a byte string
BitAt(bytes, k) == Bit(bytes[(k \div 8) + 1], 7 - (k % 8))

\* the top n bits of byte string data, as a sequence of 0/1
TopBits(data, n) == [k \in 1..n |-> BitAt(data, k - 1)]

RECURSIVE FragBits(_)
FragBits(fs) ==
  IF fs = <<>> THEN <<>> ELSE TopBits(fs[1][1], fs[1][2]) \o FragBits(Tail(fs))

\* a bit sequence as bytes, first bit in the high place, the last byte zero padded
PackBits(bits) ==
  [i \in 1..((Len(bits) + 7) \div 8) |->
     LET f[j \in 0..8] ==
           IF j = 8 THEN 0
           ELSE (IF 8 * (i - 1) + j + 1 <= Len(bits)
                 THEN bits[8 * (i - 1) + j + 1] * (2 ^ (7 - j)) ELSE 0) + f[j + 1]
     IN  f[0]]

\* a fragment with the bits below its bit length zeroed
MaskedFragment(data, n) ==
  [i \in 1..Len(data) |->
     IF i < Len(data) THEN data[i]
     ELSE (data[i] \div (2 ^ (8 * Len(data) - n))) * (2 ^ (8 * Len(data) - n))]

\* read back, from iterator it, the bit lengths of fs in order
RECURSIVE ReadsBack(_, _)
ReadsBack(it, fs) ==
  \/ fs = <<>>
  \/ /\ fs # <<>>
     /\ LET r == read(it, fs[1][2])
        IN  /\ r.err = ""
            /\ r.ret = MaskedFragment(fs[1][1], fs[1][2])
            /\ ReadsBack(r.b, Tail(fs))

OneByteFrags(fs) ==
  \A i \in 1..Len(fs) : Len(fs[i][1]) = 1 /\ fs[i][2] >= 1 /\ fs[i][2] <= 8

\* C1: the bit count result() returns equals the sum of the bit lengths put
TotalLengthIdentity ==
  call.op = "result" => ret[2] = SumBitLens(frags)

\* C2: reading the put bit lengths back from the merger's result bytes
\* returns every fragment, masked to its bit length, and no read fails
RoundTripLaw ==
  call.op = "result" => ReadsBack(BitIterator(ret[1]), frags)

\* C3: for one-byte fragments of 1..8 bits, result() is the top bits of the
\* fragments, in order, packed first bit high, the last byte zero padded
PackingResult ==
  (call.op = "result" /\ OneByteFrags(frags)) => ret[1] = PackBits(FragBits(frags))

\* C8: a put whose bit length is outside [8*len(data)-7, 8*len(data)] raises
\* IndexError, and a put that raises leaves the accumulator as it was
PutRangeLaw ==
  call.op = "put" =>
    /\ (call.arg[2] < 8 * Len(call.arg[1]) - 7 \/ call.arg[2] > 8 * Len(call.arg[1]))
         => err = "IndexError"
    /\ err # "" => m = call.at

\* a put below the accepted range has failed on a merger with pending bits
PutRangeWitness ==
  /\ call.op = "put"
  /\ call.arg[2] < 8 * Len(call.arg[1]) - 7
  /\ err = "IndexError"
  /\ m.offset > 0
  /\ m.complete # <<>>

(***************************************************************************)
(* BitIterator: reads, byte_align and notEnd over a buffer                 *)
(***************************************************************************)
MaxBufLen == 3

MaxReadBits == 17

IterBytes == {165, 60, 255}

IterInputs == UNION { [1..k -> IterBytes] : k \in 0..MaxBufLen }

Read ==
  /\ \E n \in -1..MaxReadBits :
       LET r == read(b, n)
       IN  /\ b' = r.b
           /\ ret' = r.ret
           /\ err' = r.err
           /\ call' = [op |-> "read", arg |-> n, at |-> b.offset]
  /\ UNCHANGED <<m, frags, amrVars>>

ByteAlign ==
  /\ b' = byte_align(b)
  /\ ret' = <<>>
  /\ err' = ""
  /\ call' = [op |-> "byte_align", arg |-> 0, at |-> b.offset]
  /\ UNCHANGED <<m, frags, amrVars>>

NotEnd ==
  /\ ret' = notEnd(b)
  /\ err' = ""
  /\ call' = [op |-> "notEnd", arg |-> 0, at |-> b.offset]
  /\ UNCHANGED <<b, m, frags, amrVars>>

InitIter ==
  /\ \E data \in IterInputs : b = BitIterator(data)
  /\ m = BitMerger
  /\ frags = <<>>
  /\ call = NoCall
  /\ ret = <<>>
  /\ err = ""
  /\ AmrIdle

NextIter == Read \/ ByteAlign \/ NotEnd

SpecIter == InitIter /\ [][NextIter]_vars

\* the number of real data bits: the buffer without its stop mark
DataBits == 8 * (Len(b.data) - 1)

\* C4: a read of n >= 1 bits that ends within the data returns ceil(n/8)
\* bytes holding data bits offset..offset+n-1, first bit high, the unused
\* low bits of the last byte zero, and advances the offset by n
ReadReturnsField ==
  (call.op = "read" /\ call.arg >= 1 /\ call.at + call.arg <= DataBits) =>
    /\ err = ""
    /\ 8 * Len(ret) >= call.arg
    /\ 8 * Len(ret) < call.arg + 8
    /\ \A j \in 0..(8 * Len(ret) - 1) :
         BitAt(ret, j) = IF j < call.arg THEN BitAt(b.data, call.at + j) ELSE 0
    /\ b.offset = call.at + call.arg

\* a field that starts inside a byte, straddles a byte boundary and ends
\* inside a byte has been read
ReadStraddleWitness ==
  /\ call.op = "read"
  /\ err = ""
  /\ call.at % 8 # 0
  /\ call.arg % 8 # 0
  /\ (call.at % 8) + call.arg > 16
  /\ Len(ret) = 2

\* C7: a read of n < 0 bits or past the data raises IndexError, a read that
\* raises leaves the offset as it was, and read(0) returns the empty string
\* without raising or moving the offset
ReadRangeLaw ==
  call.op = "read" =>
    /\ (call.arg < 0 \/ call.at + call.arg > 8 * Len(b.data) - 8) => err = "IndexError"
    /\ err # "" => b.offset = call.at
    /\ call.arg = 0 => (err = "" /\ ret = <<>> /\ b.offset = call.at)

\* a read past the end has failed at an offset inside a byte
ReadRangeWitness ==
  /\ call.op = "read"
  /\ call.arg > 0
  /\ call.at % 8 # 0
  /\ call.at + call.arg > DataBits
  /\ err = "IndexError"

\* C10: byte_align never decreases the offset, leaves it a multiple of 8,
\* advances it by at most 7 and leaves a multiple of 8 as it is
ByteAlignLaw ==
  call.op = "byte_align" =>
    /\ b.offset >= call.at
    /\ b.offset % 8 = 0
    /\ b.offset - call.at <= 7
    /\ (call.at % 8 = 0 => b.offset = call.at)

\* byte_align has moved an unaligned offset
ByteAlignWitness ==
  /\ call.op = "byte_align"
  /\ call.at % 8 # 0
  /\ b.offset > call.at

(***************************************************************************)
(* AMR.process(data), with the sink open                                   *)
(***************************************************************************)
MaxHead == 2

MaxFill == 8

\* bytes that read as headers and TOC fields of every kind in both framings
AmrBytes == {0, 68, 76, 84, 124, 196, 209, 211, 244, 245, 247, 255}

Fill(k) == [i \in 1..k |-> 124]

\* narrowband octet-aligned: header 0xF0, TOC modes [2, 15], 15 payload bytes
ScenarioModes2And15 == <<240, 148, 124>> \o [i \in 1..15 |-> 85]

\* a start of up to MaxHead bytes followed by up to MaxFill bytes 0x7C
AmrInputs ==
  { h \o Fill(k) : h \in UNION { [1..n -> AmrBytes] : n \in 0..MaxHead },
                   k \in 0..MaxFill }
    \cup { ScenarioModes2And15 }

\* AMR(zWB, zOctetAlign) constructed, process(data) entered: b = BitIterator(data)
InitProcess(inputs) ==
  /\ \E data \in inputs : b = BitIterator(data)
  /\ zWB \in BOOLEAN
  /\ zOctetAlign \in BOOLEAN
  /\ sample = 0
  /\ fileOut = <<>>
  /\ pc = "while"
  /\ header = <<>>
  /\ toc = <<>>
  /\ ti = 0
  /\ entries = <<>>
  /\ m = BitMerger
  /\ frags = <<>>
  /\ call = NoCall
  /\ ret = <<>>
  /\ err = ""

InitAMR == InitProcess(AmrInputs)

\* while b.notEnd():
ProcessWhile ==
  /\ pc = "while"
  /\ pc' = IF notEnd(b) THEN "header" ELSE "done"
  /\ UNCHANGED <<b, m, frags, call, ret, err>>
  /\ UNCHANGED <<zWB, zOctetAlign, sample, fileOut, header, toc, ti, entries>>

\* header = b.read(self.round(4)), and what the test header == '\0' decides
HeaderRead ==
  LET r == read(b, round(zOctetAlign, 4))
  IN  /\ b' = r.b
      /\ err' = r.err
      /\ header' = IF r.err = "" THEN r.ret ELSE header
      /\ pc' = IF r.err # "" THEN "error" ELSE IF ZeroHeader(r.ret) THEN "skip" ELSE "toc"
      /\ toc' = IF r.err = "" /\ ~ZeroHeader(r.ret) THEN <<>> ELSE toc
      /\ UNCHANGED <<m, frags, call, ret>>
      /\ UNCHANGED <<zWB, zOctetAlign, sample, fileOut, ti, entries>>

\* the first header read of a superframe
ProcessHeader == pc = "header" /\ HeaderRead

\* while header == '\0': header = b.read(self.round(4))
ProcessSkip == pc = "skip" /\ HeaderRead

\* one turn of the TOC loop
ProcessToc ==
  /\ pc = "toc"
  /\ LET r == read(b, round(zOctetAlign, 6))
     IN  /\ b' = r.b
         /\ err' = r.err
         /\ IF r.err # ""
            THEN pc' = "error" /\ UNCHANGED <<toc, ti, entries>>
            ELSE /\ toc' = Append(toc, TocByte(r.ret[1]))
                 /\ entries' = Append(entries, r.ret[1])
                 /\ IF LastEntry(r.ret[1])
                    THEN pc' = "for" /\ ti' = 1
                    ELSE pc' = "toc" /\ UNCHANGED ti
  /\ UNCHANGED <<m, frags, call, ret>>
  /\ UNCHANGED <<zWB, zOctetAlign, sample, fileOut, header>>

\* one turn of "for t in toc"
ProcessFrame ==
  /\ pc = "for"
  /\ ti <= Len(toc)
  /\ LET t    == toc[ti]
         mode == ShiftRight(t, 3)
         out1 == Append(fileOut, [what |-> "toc", bytes |-> <<t>>])
     IN  IF ~ModeAllowed(zWB, mode)
         THEN /\ pc' = "error"
              /\ err' = "AssertionError"
              /\ UNCHANGED <<b, sample, fileOut, ti>>
         ELSE /\ sample' = CountFrame(sample)
              /\ IF HasPayload(zWB, mode)
                 THEN LET r == read(b, round(zOctetAlign, SPEECHBITS(zWB)[mode + 1]))
                      IN  /\ b' = r.b
                          /\ err' = r.err
                          /\ IF r.err # ""
                             THEN /\ pc' = "error"
                                  /\ fileOut' = out1
                                  /\ UNCHANGED ti
                             ELSE /\ pc' = "for"
                                  /\ fileOut' =
                                       Append(out1, [what |-> "speech", bytes |-> r.ret])
                                  /\ ti' = ti + 1
                 ELSE /\ fileOut' = out1
                      /\ ti' = ti + 1
                      /\ UNCHANGED <<b, err, pc>>
  /\ UNCHANGED <<m, frags, call, ret>>
  /\ UNCHANGED <<zWB, zOctetAlign, header, toc, entries>>

\* after the for loop: b.byte_align()
ProcessAlign ==
  /\ pc = "for"
  /\ ti > Len(toc)
  /\ b' = byte_align(b)
  /\ pc' = "while"
  /\ UNCHANGED <<m, frags, call, ret, err>>
  /\ UNCHANGED <<zWB, zOctetAlign, sample, fileOut, header, toc, ti, entries>>

NextAMR ==
  \/ ProcessWhile
  \/ ProcessHeader
  \/ ProcessSkip
  \/ ProcessToc
  \/ ProcessFrame
  \/ ProcessAlign

SpecAMR == InitAMR /\ [][NextAMR]_vars

(***************************************************************************)
(* What process is meant to emit                                           *)
(***************************************************************************)
\* the bytes in the sink
RECURSIVE SinkBytes(_)
SinkBytes(ws) == IF ws = <<>> THEN <<>> ELSE ws[1].bytes \o SinkBytes(Tail(ws))

\* the number of TOC bytes written
RECURSIVE TocWrites(_)
TocWrites(ws) ==
  IF ws = <<>> THEN 0
  ELSE (IF ws[1].what = "toc" THEN 1 ELSE 0) + TocWrites(Tail(ws))

ModeOf(t) == BitAnd(t, 120) \div 8

CeilBytes(n) == IF n % 8 = 0 THEN n \div 8 ELSE (n \div 8) + 1

\* bytes is, for each TOC field of ts in order, the field AND 0x7C followed by
\* ceil(SPEECHBITS[mode]/8) bytes for a mode up to the table's last index and
\* by nothing for a mode from the no-data sentinel on
RECURSIVE FramesOf(_, _, _)
FramesOf(wb, bytes, ts) ==
  IF ts = <<>> THEN bytes = <<>>
  ELSE LET mode == ModeOf(ts[1])
           plen == IF mode <= Len(SPEECHBITS(wb)) - 1
                   THEN CeilBytes(SPEECHBITS(wb)[mode + 1])
                   ELSE 0
       IN  /\ mode <= Len(SPEECHBITS(wb)) - 1 \/ mode >= NODATA(wb)
           /\ Len(bytes) >= 1 + plen
           /\ bytes[1] = BitAnd(ts[1], 124)
           /\ FramesOf(wb, SubSeq(bytes, 2 + plen, Len(bytes)), Tail(ts))

\* C5: when process completes, the sink holds one frame per TOC entry read,
\* in order: the masked TOC byte, then the mode's payload bytes if any
FrameEmission ==
  pc = "done" => FramesOf(zWB, SinkBytes(fileOut), entries)

\* process has completed a bit-packed input with a no-data frame and a
\* frame with payload
FrameEmissionWitness ==
  /\ pc = "done"
  /\ ~zOctetAlign
  /\ Len(entries) >= 2
  /\ \E i \in 1..Len(fileOut) : fileOut[i].what = "speech"
  /\ \E i \in 1..Len(entries) : ModeOf(entries[i]) >= NODATA(zWB)

\* the modes the assertion is said to reject: above the last speech mode
\* (narrowband 7, wideband 8) and below the no-data sentinel
ReservedAsClaimed(wb, mode) ==
  mode > (IF wb THEN 8 ELSE 7) /\ mode < (IF wb THEN 14 ELSE 15)

\* the modes above the table's last index (the SID slot: narrowband 8,
\* wideband 9) and below the no-data sentinel
ReservedInTable(wb, mode) ==
  mode > Len(SPEECHBITS(wb)) - 1 /\ mode < (IF wb THEN 14 ELSE 15)

\* C6, as claimed: the for loop fails, writing nothing, at every entry whose
\* mode is above the last speech mode and below the sentinel
ReservedModeFailsAsClaimed ==
  [][(pc = "for" /\ ti <= Len(toc) /\ ReservedAsClaimed(zWB, ModeOf(toc[ti])))
       => (pc' = "error" /\ err' = "AssertionError" /\ fileOut' = fileOut
             /\ sample' = sample)]_vars

\* C6, amended: the for loop fails with the assertion, writing nothing, at
\* every entry whose mode is above the table's last index (8 narrowband,
\* 9 wideband: the SID mode is accepted) and below the no-data sentinel
ReservedModeFails ==
  [][(pc = "for" /\ ti <= Len(toc) /\ ReservedInTable(zWB, ModeOf(toc[ti])))
       => (pc' = "error" /\ err' = "AssertionError" /\ fileOut' = fileOut
             /\ sample' = sample)]_vars

\* the assertion has failed at the second entry of a TOC list, after the
\* first entry's frame was written
ReservedModeWitness ==
  /\ pc = "error"
  /\ err = "AssertionError"
  /\ ti = 2
  /\ ReservedInTable(zWB, ModeOf(toc[ti]))
  /\ Len(fileOut) >= 1

\* C9: the counter equals the number of TOC bytes written, and on
\* completion the number of TOC entries read
SampleCountsFrames ==
  /\ sample = TocWrites(fileOut)
  /\ pc = "done" => sample = Len(entries)

\* one superframe with TOC modes [2, 15] has been processed: the counter is 2
SampleWitness ==
  /\ pc = "done"
  /\ ~zWB
  /\ Len(entries) = 2
  /\ ModeOf(entries[1]) = 2
  /\ ModeOf(entries[2]) = 15
  /\ sample = 2

(***************************************************************************)
(* BitMerger and BitIterator: invariants and edge cases                    *)
(***************************************************************************)
\* C11: the pending bit count is in 0..7 and the pending byte's low
\* 8 - offset bits are zero, so the trailing byte of result() carries no
\* bit beyond the bit count
AccumulatorInvariant ==
  /\ m.offset \in 0..7
  /\ m.lastVal \in 0..255
  /\ m.lastVal % (2 ^ (8 - m.offset)) = 0
  /\ (call.op = "result" /\ m.offset > 0) =>
       \A k \in ret[2]..(8 * Len(ret[1]) - 1) : BitAt(ret[1], k) = 0

\* a fragment with set bits below its bit length has been put on pending
\* bits and left bits pending
AccumulatorWitness ==
  /\ call.op = "put"
  /\ err = ""
  /\ call.at.offset > 0
  /\ call.arg = << <<85, 255>>, 11 >>
  /\ m.offset > 0
  /\ m.lastVal # 0

\* C12: 0 <= offset <= 8 * len(data) (stop mark counted) after any reads,
\* byte_aligns and notEnds, and byte_align never moves the offset past the
\* end of the real data
CursorInvariant ==
  /\ 0 <= b.offset
  /\ b.offset <= 8 * Len(b.data)
  /\ call.op = "byte_align" => b.offset <= DataBits

\* byte_align has moved the offset from inside the last data byte to the
\* end of the data
CursorWitness ==
  /\ call.op = "byte_align"
  /\ call.at % 8 # 0
  /\ b.offset = DataBits
  /\ DataBits > 8

\* C13, as claimed: put(data, 0) returns without error and changes nothing,
\* for any carrier
PutZeroNoOpAnyCarrier ==
  (call.op = "put" /\ call.arg[2] = 0) => (err = "" /\ m = call.at)

\* C13, amended: put(data, 0) changes nothing; it returns without error for
\* the empty carrier and raises IndexError for a carrier of one byte or more
PutZeroNoOp ==
  (call.op = "put" /\ call.arg[2] = 0) =>
    /\ m = call.at
    /\ call.arg[1] = <<>> => err = ""
    /\ call.arg[1] # <<>> => err = "IndexError"

\* put('', 0) has returned on a merger that holds a complete byte and
\* pending bits
PutZeroWitness ==
  /\ call.op = "put"
  /\ call.arg = << <<>>, 0 >>
  /\ err = ""
  /\ m.offset > 0
  /\ m.complete # <<>>

\* a read that ends past the last data bit but within the stop mark
IntoStopMark ==
  /\ call.op = "read"
  /\ call.arg >= 1
  /\ call.at + call.arg > DataBits
  /\ call.at + call.arg <= DataBits + 8

\* C14, as claimed: a read that ends within the stop mark succeeds and
\* returns zero bits for the places beyond the data
StopMarkLookahead ==
  IntoStopMark =>
    /\ err = ""
    /\ b.offset = call.at + call.arg
    /\ \A j \in 0..(8 * Len(ret) - 1) :
         BitAt(ret, j) = IF call.at + j < DataBits THEN BitAt(b.data, call.at + j) ELSE 0

\* C14, amended: a read that ends past the last data bit raises IndexError
\* and leaves the offset, also when it would fit within the stop mark; a
\* read that returns ends within the data
NoStopMarkLookahead ==
  /\ IntoStopMark => (err = "IndexError" /\ b.offset = call.at /\ ret = <<>>)
  /\ (call.op = "read" /\ err = "") => call.at + call.arg <= DataBits

\* a read that starts inside the data and ends inside the stop mark has failed
StopMarkWitness ==
  /\ IntoStopMark
  /\ call.at < DataBits
  /\ call.at % 8 # 0
  /\ err = "IndexError"

(***************************************************************************)
(* AMR.process: how it stops, alignment, the zero-header skip              *)
(***************************************************************************)
Stopped == pc \in {"done", "error"}

\* every TOC write whose mode has a payload is followed by the write of
\* that payload, whole
WholeFrames(wb, ws) ==
  \A i \in 1..Len(ws) :
    (ws[i].what = "toc" /\ ModeOf(ws[i].bytes[1]) <= Len(SPEECHBITS(wb)) - 1) =>
      /\ i < Len(ws)
      /\ ws[i + 1].what = "speech"
      /\ Len(ws[i + 1].bytes) = CeilBytes(SPEECHBITS(wb)[ModeOf(ws[i].bytes[1]) + 1])

\* C15: whenever process has stopped, normally or with an error, the sink
\* holds only complete frames
NoPartialFrame ==
  Stopped => WholeFrames(zWB, fileOut)

\* C16: the first header read of every superframe starts at a multiple of
\* 8, and with zOctetAlign so does every read process makes
SuperframeAlignment ==
  /\ pc = "header" => b.offset % 8 = 0
  /\ (zOctetAlign /\ pc \in {"header", "skip", "toc", "for"}) => b.offset % 8 = 0

\* a bit-packed run stands at the header of a second superframe, after a
\* frame with payload
AlignmentWitness ==
  /\ pc = "header"
  /\ ~zOctetAlign
  /\ b.offset > 0
  /\ \E i \in 1..Len(fileOut) : fileOut[i].what = "speech"

\* the width of a header field
HeaderBits == IF zOctetAlign THEN 8 ELSE 4

\* a header read that returns the zero byte leads to another header read
ZeroHeaderReread ==
  (pc \in {"header", "skip"} /\ pc' # "error" /\ header' = <<0>>) => pc' = "skip"

\* the replacement read has returned: the next header, or the start of the
\* TOC right after a header that is not zero
ReplacementRead ==
  /\ pc' \in {"skip", "toc"}
  /\ err' = ""
  /\ b'.offset = b.offset + HeaderBits
  /\ pc' = "toc" => (toc' = <<>> /\ header' # <<0>>)

\* C17, as claimed: a zero header is replaced by another header read, TOC
\* parsing starts right after the replacement, and process does not fail
\* after a zero header whatever follows it
ZeroHeaderNeverFails ==
  [][ZeroHeaderReread /\ (pc = "skip" => ReplacementRead)]_vars

\* C17, amended: as claimed, but the replacement read raises IndexError,
\* leaving the offset, when less than one header field of data is left
ZeroHeaderSkip ==
  [][/\ ZeroHeaderReread
     /\ (pc = "skip" /\ b.offset + HeaderBits <= DataBits) => ReplacementRead
     /\ (pc = "skip" /\ b.offset + HeaderBits > DataBits) =>
          (pc' = "error" /\ err' = "IndexError" /\ b' = b /\ fileOut' = fileOut)]_vars

\* a zero header was skipped at the start of the data and the TOC of the
\* first superframe starts right after the replacement header
ZeroHeaderWitness ==
  /\ pc = "toc"
  /\ toc = <<>>
  /\ entries = <<>>
  /\ b.data[1] = 0
  /\ b.offset = 2 * HeaderBits
  /\ header # <<0>>

\* the bytes that drive the three loops: a zero header, TOC fields with and
\* without the continuation bit, no-data and payload modes
LoopBytes == {0, 68, 124, 196, 244, 255}

LoopInputs ==
  { h \o Fill(k) : h \in UNION { [1..n -> LoopBytes] : n \in 0..MaxHead },
                   k \in 0..MaxFill }

InitAMRFair == InitProcess(LoopInputs)

\* process keeps taking steps until it stops
SpecAMRFair == InitAMRFair /\ [][NextAMR]_vars /\ WF_vars(NextAMR)

\* C18: process eventually stops, and every turn of the superframe loop,
\* the skip loop and the TOC loop increases the offset or fails
ProcessTerminates ==
  /\ <>Stopped
  /\ [][(pc \in {"header", "skip", "toc"}) => (b'.offset > b.offset \/ pc' = "error")]_vars

\* process has stopped normally at the end of the data after two superframes
TerminationWitness ==
  /\ pc = "done"
  /\ b.offset = DataBits
  /\ Len(entries) >= 2
  /\ Len(entries) > Len(toc)

====
